---- MODULE Spec2Model ----
(***************************************************************************)
(* Model of thirdparty_service_highmem_restart.py: one run of main().      *)
(* The manager probes every inventory host over ssh, freezes the list of   *)
(* running hosts, then walks the inventory again and restarts the service  *)
(* on every host that is over the memory threshold while enough other      *)
(* hosts were seen running.  The remote side (ssh, systemd) is the         *)
(* environment: its answers are chosen nondeterministically, and `svc`     *)
(* tracks on which hosts the service really is up.                         *)
(***************************************************************************)
EXTENDS Integers, Sequences, FiniteSets, TLC

VARIABLES
    MIN_OTHER_RUNNING_NODES, \* configuration value (line 58)
    inv_file,       \* environment: the file at INVENTORY_FILE
    hosts,          \* inventory returned by load_hosts()
    source,         \* provenance returned by load_hosts(): file or array
    svc,            \* environment: hosts whose service is really running
    pc,             \* position of main(): load, loaded (only in LoadSpec),
                    \* probe, decide, restart, done, or crashed when an
                    \* exception has ended the run
    idx,            \* index of the current host in the running for-loop
    states,         \* dict host -> probe state
    stateKeys,      \* insertion order of the keys of `states`
    running_hosts,  \* list frozen after the probe loop
    other_running,  \* local of the second loop, set by the gate
    lines,          \* in-memory run log
    markers,        \* marker files in TRIGGERS_DIR written by this run
    run_log         \* content of the run log file, << >> until written

vars == <<MIN_OTHER_RUNNING_NODES, inv_file, hosts, source, svc, pc, idx, states, stateKeys,
          running_hosts, other_running, lines, markers, run_log>>

-----------------------------------------------------------------------------
(* Bounds *)

MaxHosts == 2          \* longest inventory explored
MaxMinOther == 2       \* largest MIN_OTHER_RUNNING_NODES explored
MaxFileLines == 3      \* longest inventory file explored by LoadSpec

(* Program constants *)

MEM_THRESHOLD == 60

-----------------------------------------------------------------------------
(* Optional integers: None is the empty sequence, a value v is <<v>>. *)

None == << >>
Some(v) == <<v>>

(* Host identifiers are character sequences, so that the file-name        *)
(* sanitiser of write_marker can be modelled character by character.      *)
HostNames == { <<"a">>, <<"b", ":">>, <<"b", "_">> }

RECURSIVE SeqsUpTo(_, _)
SeqsUpTo(S, n) ==
    IF n = 0 THEN { << >> }
    ELSE LET shorter == SeqsUpTo(S, n - 1)
         IN  shorter \cup { Append(s, x) : s \in shorter, x \in S }

Inventories == SeqsUpTo(HostNames, MaxHosts) \ { << >> }

Range(s) == { s[k] : k \in DOMAIN s }

-----------------------------------------------------------------------------
(* The inventory file and load_hosts(). *)

\* INVENTORY, the fallback list (line 48)
INVENTORY == << <<"a">>, <<"b", ":">> >>

\* a file is absent, present but not readable, or a sequence of text lines
AbsentFile == [exists |-> FALSE, readable |-> FALSE, text |-> << >>]
UnreadableFile == [exists |-> TRUE, readable |-> FALSE, text |-> << >>]
TextFile(text) == [exists |-> TRUE, readable |-> TRUE, text |-> text]

\* lines of text as the file iterator yields them, newline included
FileLines ==
    { <<"a", "\n">>,
      <<" ", "b", ":", " ", "\n">>,
      <<"b", "_">>,
      <<"#", "a", "\n">>,
      <<" ", "#", "\n">>,
      <<" ", "\n">> }

Whitespace == {" ", "\t", "\n", "\r"}

RECURSIVE StripLeft(_)
StripLeft(ln) ==
    IF ln = << >> THEN ln
    ELSE IF Head(ln) \in Whitespace THEN StripLeft(Tail(ln)) ELSE ln

RECURSIVE StripRight(_)
StripRight(ln) ==
    IF ln = << >> THEN ln
    ELSE IF ln[Len(ln)] \in Whitespace
         THEN StripRight(SubSeq(ln, 1, Len(ln) - 1))
         ELSE ln

\* ln.strip()
strip(ln) == StripRight(StripLeft(ln))

\* ln.strip() and not ln.strip().startswith("#")  (line 100)
KeepsLine(ln) == strip(ln) # << >> /\ strip(ln)[1] # "#"

\* load_hosts() (lines 94-103): raised tells that open() threw
load_hosts(file) ==
    IF file.exists
    THEN IF ~file.readable
         THEN [raised |-> TRUE, hosts |-> << >>, source |-> "none"]
         ELSE LET kept == SelectSeq(file.text, KeepsLine)
                  found == [k \in DOMAIN kept |-> strip(kept[k])]
              IN  IF found # << >>
                  THEN [raised |-> FALSE, hosts |-> found, source |-> "file"]
                  ELSE [raised |-> FALSE, hosts |-> INVENTORY,
                        source |-> "array"]
    ELSE [raised |-> FALSE, hosts |-> INVENTORY, source |-> "array"]

\* the file that lists the hosts of inv, one per line
FileOf(inv) == TextFile([k \in DOMAIN inv |-> Append(inv[k], "\n")])

\* the inventory files of the runs explored: one per inventory, or none
RunFiles == { FileOf(inv) : inv \in Inventories } \cup {AbsentFile}

\* the inventory files explored for load_hosts() alone
LoadFiles ==
    { TextFile(t) : t \in SeqsUpTo(FileLines, MaxFileLines) }
        \cup {AbsentFile, UnreadableFile}

-----------------------------------------------------------------------------
(* Text of a remote command's output, as a sequence of tokens.  A token is *)
(* a bare word or key=value; num holds the value when it is all digits.    *)

Word(w) == [kv |-> FALSE, key |-> w, num |-> None]
KeyInt(k, n) == [kv |-> TRUE, key |-> k, num |-> Some(n)]
KeyText(k) == [kv |-> TRUE, key |-> k, num |-> None]

\* readings at the threshold and above it
MemValues == {60, 70}

\* echo "STATE running service=${SERVICE} pid=${PID} mem=${PMEM_INT}"
OutRunning(mem) ==
    <<Word("STATE"), Word("running"), KeyText("service"),
      KeyInt("pid", 4242), KeyInt("mem", mem)>>
\* a running line whose memory value is not a number
OutRunningNoMem ==
    <<Word("STATE"), Word("running"), KeyText("service"),
      KeyInt("pid", 4242), KeyText("mem")>>
\* a running line without a pid
OutRunningNoPid ==
    <<Word("STATE"), Word("running"), KeyText("service"), KeyInt("mem", 70)>>
\* echo "STATE stopped service=${SERVICE}"
OutStopped == <<Word("STATE"), Word("stopped"), KeyText("service")>>
\* ssh: connect to host ... : Connection timed out
OutTransport == <<Word("ssh:"), Word("timeout")>>
\* echo "RESTARTED service=${SERVICE}"
OutRestarted == <<Word("RESTARTED"), KeyText("service")>>
\* Job for memhog.service failed
OutRestartFailed == <<Word("Job"), Word("failed")>>

\* "STATE running" in out
HasStateRunning(out) ==
    \E k \in 1..(Len(out) - 1) :
        /\ out[k] = Word("STATE")
        /\ out[k + 1] = Word("running")

\* "RESTARTED service=<name>" in out
HasRestarted(out) ==
    \E k \in 1..(Len(out) - 1) :
        /\ out[k] = Word("RESTARTED")
        /\ out[k + 1] = KeyText("service")

\* a missing value is read as 0 instead of None
parse_int_kv_Zero(output, key) ==
    LET hits == { k \in DOMAIN output :
                    /\ output[k].kv
                    /\ output[k].key = key
                    /\ output[k].num # None }
    IN  IF hits = {} THEN Some(0)
        ELSE output[CHOOSE k \in hits : \A j \in hits : k <= j].num

\* re.search(rf"\b{key}=([0-9]+)\b", output): the first key=<digits>
parse_int_kv(output, key) ==
    LET hits == { k \in DOMAIN output :
                    /\ output[k].kv
                    /\ output[k].key = key
                    /\ output[k].num # None }
    IN  IF hits = {} THEN None
        ELSE output[CHOOSE k \in hits : \A j \in hits : k <= j].num

-----------------------------------------------------------------------------
(* The environment: what ssh(host, script) can return. *)

\* answers of the read-only probe script on `host`
ProbeResults(host) ==
    IF host \in svc
    THEN { [rc |-> 0, out |-> OutRunning(m)] : m \in MemValues }
         \cup { [rc |-> 0, out |-> OutRunningNoMem],
                [rc |-> 0, out |-> OutRunningNoPid],
                [rc |-> 1, out |-> OutRunning(70)],
                [rc |-> 255, out |-> OutTransport] }
    ELSE { [rc |-> 0, out |-> OutStopped],
           [rc |-> 255, out |-> OutTransport] }

\* answers of the restart script on `host`; up tells whether the service
\* runs on the host once the call has returned
RestartResults(host) ==
    { [rc |-> 0, out |-> OutRestarted, up |-> TRUE],
      [rc |-> 0, out |-> << >>, up |-> host \in svc],
      [rc |-> 1, out |-> OutRestartFailed, up |-> FALSE],
      [rc |-> 255, out |-> OutTransport, up |-> host \in svc] }

-----------------------------------------------------------------------------
(* Run log lines and marker files. *)

Line(kind, host, data) == [kind |-> kind, host |-> host, data |-> data]

\* the header lines of the run log (lines 165-173)
HeaderFor(hs, src) ==
    <<Line("header", None, [nodes |-> Len(hs),
                            nodes_source |-> src,
                            min_other |-> MIN_OTHER_RUNNING_NODES,
                            threshold |-> MEM_THRESHOLD])>>

Header == HeaderFor(hosts, source)

\* host.replace(":", "_").replace("/", "_").replace(" ", "_")
host_safe(host) ==
    [k \in DOMAIN host |->
        IF host[k] \in {":", "/", " "} THEN "_" ELSE host[k]]

\* path of the marker file: <host_safe>_<run_id>_<mem_part>.txt; the run id
\* is the same for every file of the run, and a mem_part of None stands for
\* "mem_unknown"
MarkerPath(host, mem) == [host_safe |-> host_safe(host), mem_part |-> mem]

\* the marker file store after write_marker(host, run_id, mem, pid, note)
write_marker(files, host, mem, pid, other) ==
    LET path == MarkerPath(host, mem)
    IN  { f \in files : f.path # path }
        \cup { [path |-> path, host |-> host, mem |-> mem, pid |-> pid,
                threshold |-> MEM_THRESHOLD, other |-> other] }

-----------------------------------------------------------------------------
\* The state of main() once load_hosts() has returned and the header lines
\* are built (lines 158-177).
Init ==
    /\ MIN_OTHER_RUNNING_NODES \in 0..MaxMinOther
    /\ inv_file \in RunFiles
    /\ hosts = load_hosts(inv_file).hosts
    /\ source = load_hosts(inv_file).source
    /\ svc \in SUBSET Range(hosts)
    /\ pc = "probe"
    /\ idx = 1
    /\ states = << >>
    /\ stateKeys = << >>
    /\ running_hosts = << >>
    /\ other_running = << >>
    /\ lines = Header
    /\ markers = {}
    /\ run_log = << >>

\* the exit code of the probe is not looked at
IsRunning_IgnoreRc(r) == HasStateRunning(r.out)

\* rc == 0 and "STATE running" in out  (line 182)
IsRunning(r) == r.rc = 0 /\ HasStateRunning(r.out)

\* pid and mem are parsed whatever the classification
HostState_KeepParsed(r) ==
    [running |-> IsRunning(r),
     pid |-> parse_int_kv(r.out, "pid"),
     mem |-> parse_int_kv(r.out, "mem"),
     raw |-> r.out, rc |-> r.rc]

\* the host state built from one probe answer (lines 182-197)
HostState(r) ==
    IF IsRunning(r)
    THEN [running |-> TRUE,
          pid |-> parse_int_kv(r.out, "pid"),
          mem |-> parse_int_kv(r.out, "mem"),
          raw |-> r.out, rc |-> r.rc]
    ELSE [running |-> FALSE, pid |-> None, mem |-> None,
          raw |-> r.out, rc |-> r.rc]

\* [h for h, s in states.items() if s["running"]]  (line 202)
RunningHosts == SelectSeq(stateKeys, LAMBDA h : states[h].running)

\* a reading equal to the threshold counts as high
MemOk_Strict(mem) == mem[1] < MEM_THRESHOLD

\* mem <= MEM_THRESHOLD  (line 220)
MemOk(mem) == mem[1] <= MEM_THRESHOLD

\* the host itself is counted among the others
OtherRunning_WithSelf(host) == running_hosts

\* only the running hosts listed after the host are counted
OtherRunning_Later(host) ==
    IF host \notin Range(running_hosts) THEN running_hosts
    ELSE LET pos == CHOOSE k \in DOMAIN running_hosts :
                        running_hosts[k] = host
         IN  SubSeq(running_hosts, pos + 1, Len(running_hosts))

\* the others are counted as they are now, not as they were probed
OtherRunning_Live(host) ==
    SelectSeq(running_hosts, LAMBDA h : h # host /\ h \in svc)

\* [h for h in running_hosts if h != host]  (line 224)
OtherRunning(host) == SelectSeq(running_hosts, LAMBDA h : h # host)

\* the quorum is never found short
QuorumShort_Never(others) == FALSE

\* one running host too few is let through
QuorumShort_OffByOne(others) == Len(others) + 1 < MIN_OTHER_RUNNING_NODES

\* exactly the required number of others is not enough
QuorumShort_Strict(others) == Len(others) <= MIN_OTHER_RUNNING_NODES

\* len(other_running) < MIN_OTHER_RUNNING_NODES  (line 225)
QuorumShort(others) == Len(others) < MIN_OTHER_RUNNING_NODES

\* rc == 0 decides both the logged status and the marker (lines 234, 237)
RestartSucceeded(r) == r.rc = 0

\* check=True would turn a nonzero exit into an exception
ssh_raises_OnNonzero(r) == r.rc # 0

\* subprocess.run(cmd, input=script, capture_output=True, text=True) returns
\* whatever the exit code is: ssh() hands (rc, output) back  (lines 128-130)
ssh_raises(r) == FALSE

\* states[host] = {...}
SetState(host, s) ==
    [h \in DOMAIN states \cup {host} |-> IF h = host THEN s ELSE states[h]]

\* One iteration of the probe loop (lines 179-200).
Probe ==
    /\ pc = "probe"
    /\ idx <= Len(hosts)
    /\ LET host == hosts[idx]
       IN  \E r \in ProbeResults(host) :
             LET s == HostState(r)
             IN  IF ssh_raises(r)
                 THEN /\ pc' = "crashed"
                      /\ UNCHANGED <<states, stateKeys, lines, idx>>
                 ELSE /\ states' = SetState(host, s)
                      /\ stateKeys' = IF host \in DOMAIN states
                                      THEN stateKeys
                                      ELSE Append(stateKeys, host)
                      /\ lines' = Append(lines,
                             Line("probe", host,
                                  [running |-> s.running, rc |-> r.rc,
                                   out |-> r.out]))
                      /\ idx' = idx + 1
                      /\ UNCHANGED pc
    /\ UNCHANGED <<MIN_OTHER_RUNNING_NODES, inv_file, source, hosts, svc, running_hosts,
                   other_running, markers, run_log>>

\* the probe loop is left after the first host
ProbeLoopExhausted_Early == idx > 1

\* for host in hosts: the loop ends after the last inventory entry (line 179)
ProbeLoopExhausted == idx > Len(hosts)

\* End of the probe loop: running_hosts is computed (lines 202-208).
Aggregate ==
    /\ pc = "probe"
    /\ ProbeLoopExhausted
    /\ LET rh == RunningHosts
       IN  /\ running_hosts' = rh
           /\ lines' = Append(lines,
                  Line("running_hosts", None, [n |-> Len(rh), list |-> rh]))
    /\ pc' = "decide"
    /\ idx' = 1
    /\ UNCHANGED <<MIN_OTHER_RUNNING_NODES, inv_file, source, hosts, svc, states, stateKeys,
                   other_running, markers, run_log>>

\* The gate of one iteration of the second loop (lines 210-232).
Gate ==
    /\ pc = "decide"
    /\ idx <= Len(hosts)
    /\ LET host == hosts[idx]
           s == states[host]
           mem == s.mem
           others == OtherRunning(host)
       IN  IF ~s.running
           THEN /\ idx' = idx + 1
                /\ UNCHANGED <<pc, other_running, lines>>
           ELSE IF mem = None
           THEN /\ lines' = Append(lines,
                       Line("skip_mem_unknown", host, [raw |-> s.raw]))
                /\ idx' = idx + 1
                /\ UNCHANGED <<pc, other_running>>
           ELSE IF MemOk(mem)
           THEN /\ lines' = Append(lines, Line("ok", host, [mem |-> mem]))
                /\ idx' = idx + 1
                /\ UNCHANGED <<pc, other_running>>
           ELSE IF QuorumShort(others)
           THEN /\ lines' = Append(lines,
                       Line("skip_quorum", host,
                            [mem |-> mem, other |-> Len(others)]))
                /\ idx' = idx + 1
                /\ other_running' = others
                /\ UNCHANGED pc
           ELSE /\ lines' = Append(lines,
                       Line("allowed", host,
                            [mem |-> mem, other |-> Len(others)]))
                /\ other_running' = others
                /\ pc' = "restart"
                /\ UNCHANGED idx
    /\ UNCHANGED <<MIN_OTHER_RUNNING_NODES, inv_file, source, hosts, svc, states, stateKeys,
                   running_hosts, markers, run_log>>

\* The restart call and its bookkeeping (lines 233-245).
Restart ==
    /\ pc = "restart"
    /\ LET host == hosts[idx]
           s == states[host]
       IN  \E r \in RestartResults(host) :
             LET ok == RestartSucceeded(r)
                 result == Line("restart", host,
                                [success |-> ok, rc |-> r.rc, out |-> r.out])
             IN  /\ svc' = IF r.up THEN svc \cup {host} ELSE svc \ {host}
                 /\ IF ssh_raises(r)
                    THEN /\ pc' = "crashed"
                         /\ UNCHANGED <<markers, lines, idx>>
                    ELSE /\ IF ok
                            THEN /\ markers' =
                                      write_marker(markers, host, s.mem,
                                          s.pid, Len(other_running))
                                 /\ lines' = lines \o
                                      <<result,
                                        Line("manager_marker", host,
                                             [path |->
                                                MarkerPath(host, s.mem)])>>
                            ELSE /\ markers' = markers
                                 /\ lines' = Append(lines, result)
                         /\ pc' = "decide"
                         /\ idx' = idx + 1
    /\ UNCHANGED <<MIN_OTHER_RUNNING_NODES, inv_file, source, hosts, states, stateKeys,
                   running_hosts, other_running, run_log>>

\* End of the second loop: the run log is written (lines 247-248).
Finish ==
    /\ pc = "decide"
    /\ idx > Len(hosts)
    /\ run_log' = lines
    /\ pc' = "done"
    /\ UNCHANGED <<MIN_OTHER_RUNNING_NODES, inv_file, source, hosts, svc, idx, states,
                   stateKeys, running_hosts, other_running, lines, markers>>

Next == Probe \/ Aggregate \/ Gate \/ Restart \/ Finish

\* main() before the call of load_hosts(), for any inventory file.
LoadInit ==
    /\ MIN_OTHER_RUNNING_NODES \in 0..MaxMinOther
    /\ inv_file \in LoadFiles
    /\ hosts = << >>
    /\ source = "none"
    /\ svc = {}
    /\ pc = "load"
    /\ idx = 1
    /\ states = << >>
    /\ stateKeys = << >>
    /\ running_hosts = << >>
    /\ other_running = << >>
    /\ lines = << >>
    /\ markers = {}
    /\ run_log = << >>

\* hosts, source = load_hosts() and the header lines (lines 162-173); an
\* exception of load_hosts() ends the run.
LoadHosts ==
    /\ pc = "load"
    /\ LET r == load_hosts(inv_file)
       IN  IF r.raised
           THEN /\ pc' = "crashed"
                /\ UNCHANGED <<hosts, source, lines>>
           ELSE /\ pc' = "loaded"
                /\ hosts' = r.hosts
                /\ source' = r.source
                /\ lines' = HeaderFor(r.hosts, r.source)
    /\ UNCHANGED <<MIN_OTHER_RUNNING_NODES, inv_file, svc, idx, states,
                   stateKeys, running_hosts, other_running, markers, run_log>>

LoadNext == LoadHosts

\* load_hosts() on its own, over every inventory file explored.
LoadSpec == LoadInit /\ [][LoadNext]_vars

Spec == Init /\ [][Next]_vars

\* main() is sequential and every remote call returns (ConnectTimeout).
LiveSpec == Spec /\ WF_vars(Next)

TypeOK ==
    /\ pc \in {"load", "loaded", "probe", "decide", "restart", "done",
              "crashed"}
    /\ idx \in 1..(Len(hosts) + 1)
    /\ Range(stateKeys) = DOMAIN states

-----------------------------------------------------------------------------
(* Vocabulary of the properties. *)

LinesOf(kind, h) ==
    { k \in DOMAIN lines : lines[k].kind = kind /\ lines[k].host = h }

HasLine(kind, h) == LinesOf(kind, h) # {}

GateKinds == {"skip_mem_unknown", "ok", "skip_quorum", "allowed"}

\* the gate kinds logged for host h
GateOutcomes(h) == { kind \in GateKinds : HasLine(kind, h) }

\* the second loop has finished an iteration for h, or is in one past the gate
Evaluated(h) ==
    \/ pc = "done"
    \/ /\ pc \in {"decide", "restart"}
       /\ \E k \in 1..(idx - 1) : hosts[k] = h
    \/ pc = "restart" /\ hosts[idx] = h

\* the restart capability has been invoked on h and has returned
RestartInvoked(h) == HasLine("restart", h)

\* a marker file of this run names h as its host
MarkerFor(h) == \E f \in markers : f.host = h

Probed == DOMAIN states

\* h was probed running with a memory reading above the threshold
OverThreshold(h) ==
    /\ states[h].running
    /\ states[h].mem # None
    /\ states[h].mem[1] > MEM_THRESHOLD

\* hosts of the frozen list other than h
FrozenOthers(h) == Range(running_hosts) \ {h}

Untouched(h) == ~HasLine("allowed", h) /\ ~RestartInvoked(h) /\ ~MarkerFor(h)

-----------------------------------------------------------------------------
\* C1: once the probe phase is over, a host probed running with memory
\* above the threshold and fewer than MIN_OTHER_RUNNING_NODES other hosts in
\* the frozen list is never allowed, restarted or marked, and the only gate
\* outcome it gets is skip-quorum.
C1_SkipQuorum ==
    pc # "probe" =>
        \A h \in Probed :
            (OverThreshold(h)
             /\ Cardinality(FrozenOthers(h)) < MIN_OTHER_RUNNING_NODES)
            => /\ Untouched(h)
               /\ GateOutcomes(h) \subseteq {"skip_quorum"}
               /\ Evaluated(h) => HasLine("skip_quorum", h)

\* a host with one other running host was skipped because two were required
C1_Witness ==
    /\ pc = "done"
    /\ MIN_OTHER_RUNNING_NODES = 2
    /\ \E h \in Probed :
        /\ OverThreshold(h)
        /\ Cardinality(FrozenOthers(h)) = 1
        /\ HasLine("skip_quorum", h)

\* C2 (as claimed): whenever the restart capability is about to be invoked
\* on a host, at least MIN_OTHER_RUNNING_NODES other hosts really run the
\* service at that moment.
C2_LiveQuorumAtRestart ==
    pc = "restart" =>
        Cardinality(svc \ {hosts[idx]}) >= MIN_OTHER_RUNNING_NODES

\* C3: the hosts the gate counts for h never include h, the counts it logs
\* are those of the frozen list without h, and a host that is the only
\* running one and over the threshold is skipped when at least one other
\* running host is required.
C3_SelfExclusion ==
    /\ pc = "restart" => hosts[idx] \notin Range(other_running)
    /\ pc # "probe" =>
        \A k \in DOMAIN lines :
            lines[k].kind \in {"skip_quorum", "allowed"}
            => lines[k].data.other = Cardinality(FrozenOthers(lines[k].host))
    /\ pc # "probe" =>
        \A h \in Probed :
            (/\ OverThreshold(h)
             /\ Range(running_hosts) = {h}
             /\ MIN_OTHER_RUNNING_NODES >= 1
             /\ Evaluated(h))
            => HasLine("skip_quorum", h) /\ Untouched(h)

\* the only running host is over the threshold, one other is required, and
\* the run ended with the host skipped
C3_Witness ==
    /\ pc = "done"
    /\ MIN_OTHER_RUNNING_NODES = 1
    /\ Len(hosts) = 2
    /\ \E h \in Probed :
        /\ OverThreshold(h)
        /\ Range(running_hosts) = {h}
        /\ HasLine("skip_quorum", h)

\* the list of running hosts as the run log recorded it after the probes
LoggedSnapshot ==
    lines[CHOOSE k \in DOMAIN lines : lines[k].kind = "running_hosts"].data.list

\* C4: the list of running hosts is computed once, after the probe phase;
\* no later step changes it or the probe states, restarts included, and
\* every quorum decision counts the hosts of that very list.
C4_SnapshotStability ==
    /\ [][pc # "probe" =>
            running_hosts' = running_hosts /\ states' = states]_vars
    /\ [](pc # "probe" =>
            /\ Cardinality({ k \in DOMAIN lines :
                               lines[k].kind = "running_hosts" }) = 1
            /\ running_hosts = LoggedSnapshot
            /\ \A k \in DOMAIN lines :
                 lines[k].kind \in {"skip_quorum", "allowed"}
                 => lines[k].data.other =
                      Len(SelectSeq(LoggedSnapshot,
                                    LAMBDA h : h # lines[k].host)))

\* a restart left its host stopped, and a later host was still allowed on
\* the strength of the frozen list
C4_Witness ==
    /\ pc = "restart"
    /\ \E k \in 1..(idx - 1) :
        /\ HasLine("restart", hosts[k])
        /\ hosts[k] \notin svc
        /\ hosts[k] \in Range(other_running)

\* C5 (as claimed): a marker exists for a host exactly when a restart of
\* that host was recorded as a success.
C5_MarkerIffSuccess ==
    \A h \in HostNames :
        MarkerFor(h) <=>
            \E k \in LinesOf("restart", h) : lines[k].data.success

\* C6 (as claimed): a restart is recorded as a success exactly when it
\* exited 0 and printed the RESTARTED token, and a failure leaves no marker
\* line behind it.
C6_SuccessNeedsToken ==
    \A k \in DOMAIN lines :
        lines[k].kind = "restart"
        => /\ lines[k].data.success <=>
                (lines[k].data.rc = 0 /\ HasRestarted(lines[k].data.out))
           /\ ~(lines[k].data.rc = 0 /\ HasRestarted(lines[k].data.out))
                => ~(k + 1 \in DOMAIN lines
                     /\ lines[k + 1].kind = "manager_marker")

\* C7 (as claimed): no host is probed more than once or restarted more than
\* once in a run.
C7_AtMostOnce ==
    \A h \in HostNames :
        /\ Cardinality(LinesOf("probe", h)) <= 1
        /\ Cardinality(LinesOf("restart", h)) <= 1

\* h was probed running, over the threshold, with enough others in the list
Eligible(h) ==
    /\ h \in Probed
    /\ OverThreshold(h)
    /\ Cardinality(FrozenOthers(h)) >= MIN_OTHER_RUNNING_NODES

\* the gate has allowed h and the restart capability was invoked on it
AllowedAndRestarted(h) == HasLine("allowed", h) /\ RestartInvoked(h)

\* C8: once the probe phase is over, every host probed running with memory
\* above the threshold and at least MIN_OTHER_RUNNING_NODES others in the
\* frozen list is eventually allowed and has the restart invoked on it:
\* whenever such a host is still waiting, a state follows in which none is.
C8_EligibleRestarted ==
    (/\ pc # "probe"
     /\ \E h \in HostNames : Eligible(h) /\ ~AllowedAndRestarted(h))
        ~> (\A h \in HostNames : Eligible(h) => AllowedAndRestarted(h))

\* an eligible host was restarted although the restart of a host processed
\* before it had failed
C8_Witness ==
    /\ pc = "done"
    /\ \E j \in DOMAIN hosts : \E k \in DOMAIN hosts :
        /\ j < k
        /\ hosts[j] # hosts[k]
        /\ \E n \in LinesOf("restart", hosts[j]) : ~lines[n].data.success
        /\ Eligible(hosts[k])
        /\ RestartInvoked(hosts[k])

\* C9: a host probed running with a memory reading at or below the
\* threshold gets the gate outcome ok and is never allowed, restarted or
\* marked, however many hosts are running.
C9_OkUntouched ==
    pc # "probe" =>
        \A h \in Probed :
            (/\ states[h].running
             /\ states[h].mem # None
             /\ states[h].mem[1] <= MEM_THRESHOLD)
            => /\ Untouched(h)
               /\ ~HasLine("skip_quorum", h)
               /\ Evaluated(h) => HasLine("ok", h)

\* a host exactly at the threshold ended the run as ok while another host
\* was running beside it
C9_Witness ==
    /\ pc = "done"
    /\ \E h \in Probed :
        /\ states[h].mem = Some(MEM_THRESHOLD)
        /\ HasLine("ok", h)
        /\ Cardinality(FrozenOthers(h)) >= 1

\* C10: a host whose recorded probe exited nonzero or printed no running
\* STATE line is not running, has no pid and no memory, is not in the
\* frozen list, gets no gate outcome, no restart and no marker, and its
\* probe output and exit code are in the run log.
C10_ConservativeProbe ==
    \A h \in Probed :
        (states[h].rc # 0 \/ ~HasStateRunning(states[h].raw))
        => /\ ~states[h].running
           /\ states[h].pid = None
           /\ states[h].mem = None
           /\ h \notin Range(running_hosts)
           /\ GateOutcomes(h) = {}
           /\ ~RestartInvoked(h)
           /\ ~MarkerFor(h)
           /\ \E k \in LinesOf("probe", h) :
                /\ lines[k].data.rc = states[h].rc
                /\ lines[k].data.out = states[h].raw
                /\ ~lines[k].data.running
           /\ pc = "done" =>
                \E k \in DOMAIN run_log :
                    /\ run_log[k].kind = "probe"
                    /\ run_log[k].host = h
                    /\ run_log[k].data.rc = states[h].rc
                    /\ run_log[k].data.out = states[h].raw

\* a probe that exited nonzero although it printed a running STATE line, in
\* a run that ended with another host restarted
C10_Witness ==
    /\ pc = "done"
    /\ \E h \in Probed :
        /\ states[h].rc # 0
        /\ HasStateRunning(states[h].raw)
    /\ \E g \in Probed : RestartInvoked(g)

\* the probe output of h holds no mem=<digits>
NoParsableMem(h) ==
    \A k \in DOMAIN states[h].raw :
        ~(/\ states[h].raw[k].kv
          /\ states[h].raw[k].key = "mem"
          /\ states[h].raw[k].num # None)

\* C11: a host probed running whose output holds no parsable memory value
\* has no memory reading, gets the gate outcome skip-unknown-memory and no
\* other, and is never allowed, restarted or marked, whatever the quorum.
C11_SkipUnknownMemory ==
    pc # "probe" =>
        \A h \in Probed :
            (states[h].running /\ NoParsableMem(h))
            => /\ states[h].mem = None
               /\ Untouched(h)
               /\ GateOutcomes(h) \subseteq {"skip_mem_unknown"}
               /\ Evaluated(h) => HasLine("skip_mem_unknown", h)

\* a running host without a memory reading was skipped although enough
\* other hosts were running, and the run went on to its end
C11_Witness ==
    /\ pc = "done"
    /\ \E h \in Probed :
        /\ states[h].running
        /\ NoParsableMem(h)
        /\ HasLine("skip_mem_unknown", h)
        /\ Cardinality(FrozenOthers(h)) >= MIN_OTHER_RUNNING_NODES

\* every running inventory host has its gate outcome and every allowed one
\* its restart result
AllHostsProcessed ==
    \A h \in Range(hosts) :
        states[h].running
        => /\ GateOutcomes(h) # {}
           /\ HasLine("allowed", h) => RestartInvoked(h)

\* C12: whenever a restart is about to be invoked, whatever it returns, the
\* run goes on to its normal end: every host has been processed and the run
\* log is written.
C12_FailureIsolation ==
    (pc = "restart")
        ~> (pc = "done" /\ run_log = lines /\ AllHostsProcessed)

\* the restart of the first host failed and the run ended normally with the
\* second host restarted and the log written
C12_Witness ==
    /\ pc = "done"
    /\ run_log = lines
    /\ Len(hosts) = 2
    /\ hosts[1] # hosts[2]
    /\ \E n \in LinesOf("restart", hosts[1]) : lines[n].data.rc # 0
    /\ \E n \in LinesOf("restart", hosts[2]) : lines[n].data.success

\* the probe output of h holds no pid=<digits>
NoParsablePid(h) ==
    \A k \in DOMAIN states[h].raw :
        ~(/\ states[h].raw[k].kv
          /\ states[h].raw[k].key = "pid"
          /\ states[h].raw[k].num # None)

\* C13 (as claimed): for every probed host, memory and pid are both present
\* exactly when the host is running.
C13_PresentIffRunning ==
    \A h \in Probed :
        (states[h].mem # None /\ states[h].pid # None) <=> states[h].running

\* C13 (amended): a host that is not running has neither memory nor pid,
\* and a running host lacks the memory or the pid exactly when its probe
\* output holds no parsable value for it.
C13_AbsentUnlessRunning ==
    \A h \in Probed :
        /\ ~states[h].running
            => states[h].mem = None /\ states[h].pid = None
        /\ states[h].running
            => /\ states[h].mem = None <=> NoParsableMem(h)
               /\ states[h].pid = None <=> NoParsablePid(h)

\* one host is running with a pid and no memory reading, and another is
\* not running although its output carried a pid and a memory value
C13_Witness ==
    /\ \E h \in Probed :
        /\ states[h].running
        /\ states[h].pid # None
        /\ states[h].mem = None
    /\ \E h \in Probed :
        /\ ~states[h].running
        /\ ~NoParsableMem(h)
        /\ ~NoParsablePid(h)

\* positions of the log lines of one kind
KindLines(kind) == { k \in DOMAIN lines : lines[k].kind = kind }

\* C14: once the list of running hosts is computed, every inventory entry
\* has been probed, and in the order of the run every probe comes before
\* the computation of the list, which comes before every gate decision and
\* every restart: no probe follows a restart.
C14_ProbeBarrier ==
    /\ pc \in {"decide", "restart", "done"}
        => /\ Range(hosts) \subseteq Probed
           /\ Cardinality(KindLines("probe")) = Len(hosts)
           /\ KindLines("running_hosts") # {}
    /\ \A p \in KindLines("probe") :
        /\ \A a \in KindLines("running_hosts") : p < a
        /\ \A r \in KindLines("restart") : p < r
    /\ \A a \in KindLines("running_hosts") :
        \A k \in DOMAIN lines :
            lines[k].kind \in GateKinds \cup {"restart"} => a < k

\* two hosts were probed and a restart has been invoked
C14_Witness ==
    /\ Cardinality(KindLines("probe")) = 2
    /\ KindLines("restart") # {}
    /\ pc = "decide"
    /\ idx = 2

\* the hosts whose restart has been recorded as a success so far
SucceededHosts ==
    { h \in HostNames : \E k \in LinesOf("restart", h) : lines[k].data.success }

\* C15 (as claimed): at every point of the run, which is every point a crash
\* can freeze, the marker files on disk are exactly those of the hosts
\* restarted with success so far, one each, while the run log file is not
\* written before the end of the run.
C15_MarkersSurviveCrash ==
    /\ { f.host : f \in markers } = SucceededHosts
    /\ Cardinality(markers) = Cardinality(SucceededHosts)
    /\ pc # "done" => run_log = << >>

\* positions of the lines of the written run log of one kind for host h
LogLinesOf(kind, h) ==
    { k \in DOMAIN run_log : run_log[k].kind = kind /\ run_log[k].host = h }

\* positions of the gate decisions of the written run log for host h
LogGateLines(h) ==
    { k \in DOMAIN run_log :
        run_log[k].kind \in GateKinds /\ run_log[k].host = h }

\* C16 (as claimed): the written run log holds exactly one probe line for
\* every inventory host, exactly one gate decision for every host probed
\* running, exactly one restart result for every allowed host, placed after
\* its allow line, and all probe lines before all gate and restart lines.
C16_LogComplete ==
    pc = "done" =>
        /\ \A h \in Range(hosts) :
            /\ Cardinality(LogLinesOf("probe", h)) = 1
            /\ states[h].running => Cardinality(LogGateLines(h)) = 1
            /\ ~states[h].running => LogGateLines(h) = {}
            /\ LogLinesOf("allowed", h) # {}
                => /\ Cardinality(LogLinesOf("restart", h)) = 1
                   /\ \A a \in LogLinesOf("allowed", h) :
                        \A r \in LogLinesOf("restart", h) : a < r
            /\ LogLinesOf("allowed", h) = {} => LogLinesOf("restart", h) = {}
        /\ \A p \in DOMAIN run_log : \A q \in DOMAIN run_log :
            (/\ run_log[p].kind = "probe"
             /\ run_log[q].kind \in GateKinds \cup {"restart"})
            => p < q

\* the trimmed lines of text that are neither empty nor comments, in order
RECURSIVE HostLines(_)
HostLines(text) ==
    IF text = << >> THEN << >>
    ELSE LET ln == strip(Head(text))
         IN  IF ln = << >> \/ Head(ln) = "#"
             THEN HostLines(Tail(text))
             ELSE <<ln>> \o HostLines(Tail(text))

\* C17 (as claimed): load_hosts never fails, whatever the inventory file
\* is; it returns the host lines of the file, in file order and tagged
\* file, exactly when the file exists and has such a line, and otherwise
\* the fallback list tagged array.
C17_LoaderNeverFails ==
    /\ pc # "crashed"
    /\ pc = "loaded" =>
        IF inv_file.exists /\ HostLines(inv_file.text) # << >>
        THEN hosts = HostLines(inv_file.text) /\ source = "file"
        ELSE hosts = INVENTORY /\ source = "array"

\* C18: every marker file of the run records a known memory value above
\* the threshold, a count of other running hosts of at least
\* MIN_OTHER_RUNNING_NODES, and a host of the frozen list; no marker is
\* named or filled with an unknown memory.
C18_MarkersJustified ==
    \A f \in markers :
        /\ f.mem # None
        /\ f.path.mem_part # None
        /\ f.mem[1] > MEM_THRESHOLD
        /\ f.other >= MIN_OTHER_RUNNING_NODES
        /\ f.host \in Range(running_hosts)
        /\ f.mem = states[f.host].mem

\* a run that required one other running host ended with a marker, written
\* for a host whose pid was unknown
C18_Witness ==
    /\ pc = "done"
    /\ MIN_OTHER_RUNNING_NODES = 1
    /\ \E f \in markers : f.pid = None /\ f.other = 1

\* the hosts probed running, as a set
RunningSet == { g \in Probed : states[g].running }

\* the gate outcome of h as a function of the probe results alone: neither
\* the inventory order nor any restart result enters it
Decision(h) ==
    IF states[h].mem = None THEN "skip_mem_unknown"
    ELSE IF states[h].mem[1] <= MEM_THRESHOLD THEN "ok"
    ELSE IF Cardinality(RunningSet \ {h}) < MIN_OTHER_RUNNING_NODES
         THEN "skip_quorum"
         ELSE "allowed"

\* C19: for an inventory of distinct hosts, the gate outcome of every host
\* is the one the probe results alone determine, whatever the order of the
\* inventory and whatever the restarts before it returned, and at the end
\* of the run the restarted hosts are exactly those so allowed.
C19_OrderIndependent ==
    (pc \in {"decide", "restart", "done"}
     /\ Cardinality(Range(hosts)) = Len(hosts))
    => \A h \in Range(hosts) :
        /\ ~states[h].running => GateOutcomes(h) = {}
        /\ states[h].running
            => /\ GateOutcomes(h) \subseteq {Decision(h)}
               /\ Evaluated(h) => GateOutcomes(h) = {Decision(h)}
        /\ pc = "done"
            => (RestartInvoked(h)
                <=> (states[h].running /\ Decision(h) = "allowed"))

\* two distinct hosts, listed in the order opposite to the fallback list,
\* were both allowed although the restart of the first left it stopped
C19_Witness ==
    /\ pc = "done"
    /\ hosts = << <<"b", ":">>, <<"a">> >>
    /\ <<"b", ":">> \notin svc
    /\ \A h \in Range(hosts) :
        states[h].running /\ Decision(h) = "allowed" /\ RestartInvoked(h)
====
